---- MODULE Spec2Model ----
(***************************************************************************)
(* Model of visma-verifications (main.go): a Visma verification list, a    *)
(* ';'-separated file of 8-column rows, is read, the result units named in *)
(* column 5 are discovered, the rows are partitioned over the units'       *)
(* buffers voucher by voucher, and every unit's buffer is exported.        *)
(*                                                                         *)
(* Text is a sequence of one-character strings, so that prefix and index   *)
(* tests are computed, not assumed.  A Line is a sequence of texts; Go's   *)
(* field k is element k+1 here.  A unit's Buffer and the pending buffer    *)
(* hold row references (Go slices alias the rows read by readFile): a      *)
(* reference is the row's position in lines.  A *ResultUnit is the unit's  *)
(* position in resultUnits, nil is 0.                                      *)
(***************************************************************************)
EXTENDS Integers, Sequences, FiniteSets, TLC

\* ------------------------------------------------------------------ bounds
\* Longest input file, in records.
MaxLines == 4
\* I/O failures (mkdir of the export directory, serializer, write) are injected into the runs over at most
\* this many records; longer runs meet a working serializer and disk.
MaxFaultyLines == 3

\* Longest buffer handed to dumpCSV on its own, in rows.
MaxCsvRows == 2

\* ------------------------------------------------------------------- text
Quote == "\""
EmptyText == << >>
Ztyret == <<"Z", "t">>
DK == <<"D", "K">>
Quoted == <<Quote, "D", "K">>
VerNo == <<"1">>
Other == <<"x">>

\* strings.HasPrefix
HasPrefix(s, p) == Len(s) >= Len(p) /\ SubSeq(s, 1, Len(p)) = p

\* strings.Index: the 0-based position of the first occurrence of p in s, -1 if none
Index(s, p) ==
    LET hits == {k \in 0..(Len(s) - Len(p)) : SubSeq(s, k + 1, k + Len(p)) = p}
    IN  IF hits = {} THEN -1 ELSE CHOOSE k \in hits : \A j \in hits : k <= j

\* Go's line[k]
Field(line, k) == line[k + 1]

\* ----------------------------------------------------------- configuration
defaultResultUnitName == Ztyret

\* The unit names of the input that are keys of resultMap ("DK" is none); every key
\* maps to the folder "Ztyret".
resultMapKeys == {Ztyret}
resultMapTarget == Ztyret

Formats == {"csv", "xlsx"}

\* ------------------------------------------------------------ input files
Row8(ver, owner) == <<ver, Other, Other, Other, Other, owner, Other, Other>>
Row7(owner) == <<VerNo, Other, Other, Other, Other, owner, Other>>
Row5 == <<VerNo, Other, Other, Other, Other>>

Records ==
    {Row8(v, o) : v \in {EmptyText, VerNo}, o \in {EmptyText, Quoted, Ztyret, DK}}
        \cup {Row7(Ztyret), Row7(EmptyText), Row5}

Files == UNION {[1..n -> Records] : n \in 0..MaxLines}

VARIABLES
    pc,                  \* where main is
    exit,                \* how the process ended: "" while running or after a normal return
    file,                \* the records of the input file
    format,              \* the output format of the command line, which selects the DumpFn
    lines,               \* main's lines
    resultUnits,         \* main's resultUnits: a sequence of [Name, Buffer]
    defaultResultUnit,   \* main's defaultResultUnit: a position in resultUnits, 0 is nil
    pos,                 \* rows the loop of splitFileByResult has consumed
    buffer,              \* splitFileByResult's buffer
    currentResultUnits,  \* splitFileByResult's currentResultUnits
    exported,            \* units the loop of writeFile has handled
    writes               \* the ioutil.WriteFile calls made, in order

vars == <<pc, exit, file, format, lines, resultUnits, defaultResultUnit, pos, buffer,
          currentResultUnits, exported, writes>>

Init ==
    /\ pc = "readFile"
    /\ exit = ""
    /\ file \in Files
    /\ format \in Formats
    /\ lines = << >>
    /\ resultUnits = << >>
    /\ defaultResultUnit = 0
    /\ pos = 0
    /\ buffer = << >>
    /\ currentResultUnits = << >>
    /\ exported = 0
    /\ writes = << >>

\* Whether the environment of this run may fail.
Faulty == Len(file) <= MaxFaultyLines

Abort(how) == pc' = "aborted" /\ exit' = how

\* ---------------------------------------------------------------- readFile
\* Mutant: a reader that checks no field count (FieldsPerRecord negative).
ReadAllAnyFieldCount(f) == TRUE

\* csv.Reader.ReadAll with FieldsPerRecord left 0: the first record sets the
\* field count and a later record with another count is ErrFieldCount.
ReadAllOk(f) == \A k \in 1..Len(f) : Len(f[k]) = Len(f[1])

ReadFile ==
    /\ pc = "readFile"
    /\ IF ReadAllOk(file)
       THEN /\ lines' = file
            /\ pc' = "findResultUnits"
            /\ UNCHANGED exit
       ELSE /\ Abort("readFile: log.Fatal")
            /\ UNCHANGED lines
    /\ UNCHANGED <<file, format, resultUnits, defaultResultUnit, pos, buffer,
                   currentResultUnits, exported, writes>>

\* --------------------------------------------------------- findResultUnits
\* Mutant: the discovery loop without its test for a quoted owner.
IsResultUnitNameQuotedToo(owner) == owner # EmptyText

\* The owner test of the discovery loop: line[5] neither quoted nor empty.
IsResultUnitName(owner) == Index(owner, <<Quote>>) # 0 /\ owner # EmptyText

\* Mutant: a discovery loop that skips the first row, taken for the header.
OwnerMapSkipsFirst(ls) ==
    {Field(ls[k], 5) : k \in {j \in 2..Len(ls) : IsResultUnitName(Field(ls[j], 5))}}

\* The keys of ownerMap after the first loop.
OwnerMap(ls) ==
    {Field(ls[k], 5) : k \in {j \in 1..Len(ls) : IsResultUnitName(Field(ls[j], 5))}}

\* Mutant: units built from a list of the owners in which a name can repeat.
OrdersWithRepeats(S) ==
    {o \in [1..(Cardinality(S) + (IF S = {} THEN 0 ELSE 1)) -> S] :
        \A n \in S : \E k \in DOMAIN o : o[k] = n}

\* Every order in which ranging over a Go map can visit the keys.
Orders(S) == {o \in [1..Cardinality(S) -> S] : \A n \in S : \E k \in DOMAIN o : o[k] = n}

\* line[5] of a line of fewer than 6 fields is an index out of range.
FindResultUnits ==
    /\ pc = "findResultUnits"
    /\ IF \E k \in 1..Len(lines) : Len(lines[k]) < 6
       THEN /\ Abort("findResultUnits: panic")
            /\ UNCHANGED resultUnits
       ELSE /\ \E o \in Orders(OwnerMap(lines)) :
                   resultUnits' = [k \in DOMAIN o |-> [Name |-> o[k], Buffer |-> << >>]]
            /\ pc' = "main"
            /\ UNCHANGED exit
    /\ UNCHANGED <<file, format, lines, defaultResultUnit, pos, buffer,
                   currentResultUnits, exported, writes>>

\* -------------------------------------------------------------------- main
\* The loop of main: the first unit named name, nil if there is none.
FindDefault(units, name) ==
    LET hits == {k \in DOMAIN units : units[k].Name = name}
    IN  IF hits = {} THEN 0 ELSE CHOOSE k \in hits : \A j \in hits : k <= j

\* Mutant: main without its nil check.
DefaultNeverMissing(d) == FALSE

\* main panics on a nil default unit, and otherwise calls splitFileByResult.
DefaultMissing(d) == d = 0

MainLookup ==
    /\ pc = "main"
    /\ LET d == FindDefault(resultUnits, defaultResultUnitName)
       IN  /\ defaultResultUnit' = d
           /\ IF DefaultMissing(d)
              THEN Abort("main: panic")
              ELSE pc' = "splitFileByResult" /\ UNCHANGED exit
    /\ UNCHANGED <<file, format, lines, resultUnits, pos, buffer,
                   currentResultUnits, exported, writes>>

\* ------------------------------------------------------- splitFileByResult
\* The row the loop is at.
Line == lines[pos + 1]

InLoop == pc = "splitFileByResult" /\ pos < Len(lines)

\* Mutant: a sanity check that only rejects rows of more than 8 fields.
InsaneOnlyIfLonger(line) == Len(line) > 8

\* The sanity check of the loop.
Insane(line) == Len(line) # 8

SanityCheck ==
    /\ InLoop
    /\ Insane(Line)
    /\ Abort("splitFileByResult: log.Fatal")
    /\ UNCHANGED <<file, format, lines, resultUnits, defaultResultUnit, pos, buffer,
                   currentResultUnits, exported, writes>>

\* Mutant: a row with a voucher number is never taken for a debit/credit line.
IsDebetCreditWithoutVoucher(line) ==
    LET owner == Field(line, 5)
    IN  owner # EmptyText /\ ~HasPrefix(owner, <<Quote>>) /\ Field(line, 0) = EmptyText

\* The test of parseDebetCreditLine.
IsDebetCredit(line) ==
    LET owner == Field(line, 5) IN owner # EmptyText /\ ~HasPrefix(owner, <<Quote>>)

\* The test of parseEmptyLine.
IsEmpty(line) == Field(line, 0) = EmptyText

\* Mutant: the lookup without the exists test, so that a unit is activated once per
\* ownership line.
ActivateAgain(cur, units, owner) ==
    cur \o SelectSeq([k \in DOMAIN units |-> k], LAMBDA k : units[k].Name = owner)

\* Mutant: the found unit replaces currentResultUnits instead of being appended.
ActivateReplacing(cur, units, owner) ==
    IF \E k \in DOMAIN cur : units[cur[k]].Name = owner
    THEN cur
    ELSE SelectSeq([k \in DOMAIN units |-> k], LAMBDA k : units[k].Name = owner)

\* parseDebetCreditLine's update of currentResultUnits for an owner.
Activate(cur, units, owner) ==
    IF \E k \in DOMAIN cur : units[cur[k]].Name = owner
    THEN cur
    ELSE cur \o SelectSeq([k \in DOMAIN units |-> k], LAMBDA k : units[k].Name = owner)

ParseDebetCreditLine ==
    /\ InLoop
    /\ ~Insane(Line)
    /\ IsDebetCredit(Line)
    /\ currentResultUnits' = Activate(currentResultUnits, resultUnits, Field(Line, 5))
    /\ buffer' = Append(buffer, pos + 1)
    /\ pos' = pos + 1
    /\ UNCHANGED <<pc, exit, file, format, lines, resultUnits, defaultResultUnit,
                   exported, writes>>

\* Mutant: a continuation line that is consumed without being appended.
ParseEmptyLineSkips ==
    /\ InLoop
    /\ ~Insane(Line)
    /\ ~IsDebetCredit(Line)
    /\ IsEmpty(Line)
    /\ pos' = pos + 1
    /\ UNCHANGED <<pc, exit, file, format, lines, resultUnits, defaultResultUnit, buffer,
                   currentResultUnits, exported, writes>>

ParseEmptyLine ==
    /\ InLoop
    /\ ~Insane(Line)
    /\ ~IsDebetCredit(Line)
    /\ IsEmpty(Line)
    /\ buffer' = Append(buffer, pos + 1)
    /\ pos' = pos + 1
    /\ UNCHANGED <<pc, exit, file, format, lines, resultUnits, defaultResultUnit,
                   currentResultUnits, exported, writes>>

\* Mutant: the fallback of the flush is the first discovered unit, not the default unit.
FlushTargetsFirstUnit(cur, def) == IF Len(cur) = 0 THEN <<1>> ELSE cur

\* Mutant: a flush without the fallback to the default unit.
FlushTargetsNoDefault(cur, def) == cur

\* parseNewVerificatLine: the units the flush goes to.
FlushTargets(cur, def) == IF Len(cur) = 0 THEN <<def>> ELSE cur

\* Mutant: the row is put in front of the unit's buffer.
AppendRowInFront(units, targets, b) ==
    [k \in DOMAIN units |->
        [units[k] EXCEPT !.Buffer =
            [j \in 1..Cardinality({t \in DOMAIN targets : targets[t] = k}) |-> b] \o @]]

\* The inner loop of the flush: row b is appended once per entry of targets.
AppendRow(units, targets, b) ==
    [k \in DOMAIN units |->
        [units[k] EXCEPT !.Buffer =
            @ \o [j \in 1..Cardinality({t \in DOMAIN targets : targets[t] = k}) |-> b]]]

\* Mutant: the flush walks the pending buffer from its last row to its first.
RECURSIVE FlushBackwards(_, _, _)
FlushBackwards(units, targets, buf) ==
    IF buf = << >>
    THEN units
    ELSE FlushBackwards(AppendRow(units, targets, buf[Len(buf)]), targets,
                        SubSeq(buf, 1, Len(buf) - 1))

\* The outer loop of the flush, over the rows of the pending buffer in order.
RECURSIVE Flush(_, _, _)
Flush(units, targets, buf) ==
    IF buf = << >>
    THEN units
    ELSE Flush(AppendRow(units, targets, Head(buf)), targets, Tail(buf))

\* Mutant: a flush that does not reset currentResultUnits.
ParseNewVerificatLineNoReset ==
    /\ InLoop
    /\ ~Insane(Line)
    /\ ~IsDebetCredit(Line)
    /\ ~IsEmpty(Line)
    /\ resultUnits' =
           Flush(resultUnits, FlushTargets(currentResultUnits, defaultResultUnit), buffer)
    /\ currentResultUnits' = FlushTargets(currentResultUnits, defaultResultUnit)
    /\ buffer' = <<pos + 1>>
    /\ pos' = pos + 1
    /\ UNCHANGED <<pc, exit, file, format, lines, defaultResultUnit, exported, writes>>

ParseNewVerificatLine ==
    /\ InLoop
    /\ ~Insane(Line)
    /\ ~IsDebetCredit(Line)
    /\ ~IsEmpty(Line)
    /\ resultUnits' =
           Flush(resultUnits, FlushTargets(currentResultUnits, defaultResultUnit), buffer)
    /\ currentResultUnits' = << >>
    /\ buffer' = <<pos + 1>>
    /\ pos' = pos + 1
    /\ UNCHANGED <<pc, exit, file, format, lines, defaultResultUnit, exported, writes>>

\* The loop has consumed every row: splitFileByResult returns resultUnits as they are.
SplitReturn ==
    /\ pc = "splitFileByResult"
    /\ pos = Len(lines)
    /\ pc' = "writeFile"
    /\ UNCHANGED <<exit, file, format, lines, resultUnits, defaultResultUnit, pos, buffer,
                   currentResultUnits, exported, writes>>

\* --------------------------------------------------------------- writeFile
\* os.MkdirAll(exportDir): a failure is fatal.
WriteFileMkdir ==
    /\ pc = "writeFile"
    /\ \E err \in BOOLEAN :
          /\ err => Faulty
          /\ IF err
             THEN Abort("writeFile: log.Fatal")
             ELSE pc' = "writeFileLoop" /\ UNCHANGED exit
    /\ UNCHANGED <<file, format, lines, resultUnits, defaultResultUnit, pos, buffer,
                   currentResultUnits, exported, writes>>

\* dumpCSV never returns an error; dumpXLSX returns the one of AddSheet or Write.
DumpCanFail(fmt) == fmt = "xlsx"

\* The path of a unit's file below exportDir: <<folder, file name, extension>>.
OutFile(name, ext) ==
    IF name \in resultMapKeys
    THEN <<resultMapTarget, name, ext>>
    ELSE <<name, <<"13. Verifikatlista">>, ext>>

\* One ioutil.WriteFile call of the loop: dump's error leaves data nil and ext "".
\* The error of os.MkdirAll(outDir) is dropped or logged and changes nothing that
\* follows, so it is not recorded.
WriteCall(owner, fmt, dumpErr, writeErr) ==
    [unit |-> owner.Name,
     outFile |-> OutFile(owner.Name, IF dumpErr THEN "" ELSE fmt),
     nilData |-> dumpErr,
     data |-> IF dumpErr THEN << >> ELSE owner.Buffer,
     dumpErr |-> dumpErr,
     err |-> writeErr]

\* Mutant: an iteration whose errors are fatal (log.Fatalf for log.Printf).
WriteFileUnitFatal ==
    /\ pc = "writeFileLoop"
    /\ exported < Len(resultUnits)
    /\ \E dumpErr, writeErr \in BOOLEAN :
          /\ dumpErr => DumpCanFail(format)
          /\ (dumpErr \/ writeErr) => Faulty
          /\ writes' = Append(writes, WriteCall(resultUnits[exported + 1], format,
                                                dumpErr, writeErr))
          /\ IF dumpErr \/ writeErr
             THEN Abort("writeFile: log.Fatal")
             ELSE UNCHANGED <<pc, exit>>
    /\ exported' = exported + 1
    /\ UNCHANGED <<file, format, lines, resultUnits, defaultResultUnit, pos,
                   buffer, currentResultUnits>>

\* One iteration of the loop of writeFile: every error is logged and the loop goes on.
WriteFileUnit ==
    /\ pc = "writeFileLoop"
    /\ exported < Len(resultUnits)
    /\ \E dumpErr, writeErr \in BOOLEAN :
          /\ dumpErr => DumpCanFail(format)
          /\ (dumpErr \/ writeErr) => Faulty
          /\ writes' = Append(writes, WriteCall(resultUnits[exported + 1], format,
                                                dumpErr, writeErr))
    /\ exported' = exported + 1
    /\ UNCHANGED <<pc, exit, file, format, lines, resultUnits, defaultResultUnit, pos,
                   buffer, currentResultUnits>>

WriteFileReturn ==
    /\ pc = "writeFileLoop"
    /\ exported = Len(resultUnits)
    /\ pc' = "done"
    /\ UNCHANGED <<exit, file, format, lines, resultUnits, defaultResultUnit, pos, buffer,
                   currentResultUnits, exported, writes>>

Next ==
    \/ ReadFile
    \/ FindResultUnits
    \/ MainLookup
    \/ SanityCheck
    \/ ParseDebetCreditLine
    \/ ParseEmptyLine
    \/ ParseNewVerificatLine
    \/ SplitReturn
    \/ WriteFileMkdir
    \/ WriteFileUnit
    \/ WriteFileReturn

Spec == Init /\ [][Next]_vars

\* ----------------------------------------------------------------- dumpCSV
\* strings.Join
RECURSIVE Join(_, _)
Join(elems, sep) ==
    IF elems = << >> THEN << >>
    ELSE IF Len(elems) = 1 THEN elems[1]
    ELSE elems[1] \o sep \o Join(Tail(elems), sep)

\* dumpCSV: every line joined with ";" and ended with a newline, nothing quoted.
RECURSIVE DumpCSV(_)
DumpCSV(buf) ==
    IF buf = << >> THEN << >>
    ELSE Join(Head(buf), <<";">>) \o <<"\n">> \o DumpCSV(Tail(buf))

\* Field values the reader returns with LazyQuotes: plain, with the separator, with a
\* quote, with a line break (from a quoted field).
CsvTexts == {<< >>, <<"a">>, <<";">>, <<Quote>>, <<"\n">>}

CsvRows == {Row8(v, o) : v \in CsvTexts, o \in CsvTexts}

CsvBuffers == UNION {[1..n -> CsvRows] : n \in 0..MaxCsvRows}

\* dumpCSV on its own: lines holds the rows of the buffer it is called with, writes
\* the bytes it returns.
InitCSV ==
    /\ pc = "dumpCSV"
    /\ exit = ""
    /\ file = << >>
    /\ format = "csv"
    /\ lines \in CsvBuffers
    /\ resultUnits = << >>
    /\ defaultResultUnit = 0
    /\ pos = 0
    /\ buffer = << >>
    /\ currentResultUnits = << >>
    /\ exported = 0
    /\ writes = << >>

DumpCSVCall ==
    /\ pc = "dumpCSV"
    /\ writes' = <<DumpCSV(lines)>>
    /\ pc' = "dumped"
    /\ UNCHANGED <<exit, file, format, lines, resultUnits, defaultResultUnit, pos, buffer,
                   currentResultUnits, exported>>

NextCSV == DumpCSVCall

SpecCSV == InitCSV /\ [][NextCSV]_vars

\* =========================================================================
\* The vocabulary of the properties, stated on the rows themselves.
\* =========================================================================
StartsWithQuote(t) == t # << >> /\ t[1] = Quote

\* Fields 0 and 5 of row k of the input.
VoucherId(k) == lines[k][1]
Owner(k) == lines[k][6]

OwnershipLine(k) == Owner(k) # << >> /\ ~StartsWithQuote(Owner(k))
NewVoucherLine(k) ==
    VoucherId(k) # << >> /\ (Owner(k) = << >> \/ StartsWithQuote(Owner(k)))

\* The loop of splitFileByResult is running or has returned.
Partitioning == pc \in {"splitFileByResult", "writeFile", "writeFileLoop", "done"}
Partitioned == pc \in {"writeFile", "writeFileLoop", "done"}

\* The last row of the stretch of rows that row k belongs to: the row before the
\* next new-voucher line, or the last row of the input.
StretchEnd(k) ==
    LET later == {j \in (k + 1)..Len(lines) : NewVoucherLine(j)}
    IN  IF later = {} THEN Len(lines) ELSE (CHOOSE j \in later : \A i \in later : j <= i) - 1

\* The first row of the stretch of rows that row k belongs to: the last new-voucher
\* line at or before k, or row 1 for the rows before the first new-voucher line.
StretchStart(k) ==
    LET earlier == {j \in 1..k : NewVoucherLine(j)}
    IN  IF earlier = {} THEN 1 ELSE CHOOSE j \in earlier : \A i \in earlier : j >= i

\* The voucher groups: their first rows.
Groups == {j \in 1..Len(lines) : NewVoucherLine(j)}

\* The rows of the stretch that starts at row j, in input order.
RowsFrom(j) == [i \in 1..(StretchEnd(j) - j + 1) |-> j + i - 1]

\* The unit names of the ownership lines of the stretch that starts at row j.
OwnersFrom(j) == {Owner(k) : k \in {i \in j..StretchEnd(j) : OwnershipLine(i)}}

UnitsNamed(S) == {u \in DOMAIN resultUnits : resultUnits[u].Name \in S}

\* The units the stretch that starts at row j is attributed to.
Attributed(j) ==
    IF OwnersFrom(j) = {} THEN {defaultResultUnit} ELSE UnitsNamed(OwnersFrom(j))

\* The stretch that starts at row j has been flushed: the new-voucher line after it
\* has been consumed.
Flushed(j) == Partitioning /\ StretchEnd(j) < pos

\* What unit u's buffer holds of the stretch that starts at row j.
Held(u, j) == SelectSeq(resultUnits[u].Buffer, LAMBDA r : r >= j /\ r <= StretchEnd(j))

Occurrences(seq, x) == Cardinality({i \in DOMAIN seq : seq[i] = x})

\* -------------------------------------------------------------------------
\* C1: once splitFileByResult has consumed every row, the rows of the final
\* voucher group are in the buffer of every unit the group activated, or in the
\* default unit's buffer if it activated none.
C1_FinalGroupFlushed ==
    Partitioned =>
        \A j \in Groups :
            StretchEnd(j) = Len(lines) =>
                \A u \in Attributed(j) : Held(u, j) = RowsFrom(j)

\* -------------------------------------------------------------------------
\* C2: when the first row is a header line (field 0 non-empty, field 5 empty), after
\* partitioning that row is in the buffer of every discovered unit.
C2_HeaderInEveryUnit ==
    (Partitioned /\ Len(lines) > 0) =>
        ((VoucherId(1) # << >> /\ Owner(1) = << >>) =>
            \A u \in DOMAIN resultUnits : Occurrences(resultUnits[u].Buffer, 1) > 0)

\* -------------------------------------------------------------------------
\* C3: a voucher group without an ownership line that a later new-voucher line has
\* flushed is, row for row, in the default unit's buffer, and no row of it is in
\* another unit's buffer.
C3_UnownedGroupToDefaultOnly ==
    Partitioning =>
        \A j \in Groups :
            (Flushed(j) /\ OwnersFrom(j) = {}) =>
                \A u \in DOMAIN resultUnits :
                    Held(u, j) = IF u = defaultResultUnit THEN RowsFrom(j) ELSE << >>

C3_Witness ==
    /\ Partitioning
    /\ \E j \in Groups :
          /\ Flushed(j)
          /\ OwnersFrom(j) = {}
          /\ Len(resultUnits) > 1
          /\ Held(defaultResultUnit, j) = RowsFrom(j)

\* -------------------------------------------------------------------------
\* C4: a voucher group whose ownership lines name the units S, S not empty, that a
\* later new-voucher line has flushed is in the buffer of each unit of S as the same
\* sequence, every row of the group in input order, and no row of it is in the
\* buffer of a unit outside S.
C4_OwnedGroupToItsUnits ==
    Partitioning =>
        \A j \in Groups :
            (Flushed(j) /\ OwnersFrom(j) # {}) =>
                /\ \A n \in OwnersFrom(j) : \E u \in DOMAIN resultUnits : resultUnits[u].Name = n
                /\ \A u \in DOMAIN resultUnits :
                      Held(u, j) = IF resultUnits[u].Name \in OwnersFrom(j)
                                   THEN RowsFrom(j)
                                   ELSE << >>

\* A flushed group that names two units, one of them the default unit.
C4_Witness ==
    /\ Partitioning
    /\ \E j \in Groups :
          /\ Flushed(j)
          /\ Cardinality(OwnersFrom(j)) = 2
          /\ \A u \in DOMAIN resultUnits : Held(u, j) = RowsFrom(j)

\* A flushed group that names one unit, which is not the default unit.
C4_WitnessNotDefault ==
    /\ Partitioning
    /\ \E j \in Groups :
          /\ Flushed(j)
          /\ OwnersFrom(j) = {DK}
          /\ Held(defaultResultUnit, j) = << >>

\* -------------------------------------------------------------------------
\* C5: no discovered unit has a name that starts with a quote, and consuming a row
\* whose field 5 starts with a quote leaves currentResultUnits as it was, unless the
\* row is a new-voucher line, which empties it.
NoQuotedUnit == \A u \in DOMAIN resultUnits : ~StartsWithQuote(resultUnits[u].Name)

QuotedRowStep ==
    (pc = "splitFileByResult" /\ pos' = pos + 1 /\ StartsWithQuote(Owner(pos + 1))) =>
        currentResultUnits' =
            IF VoucherId(pos + 1) # << >> THEN << >> ELSE currentResultUnits

C5_QuotedNeverAUnit == [](NoQuotedUnit) /\ [][QuotedRowStep]_vars

\* A quoted continuation row has been consumed while a unit was active.
C5_Witness ==
    /\ pc = "splitFileByResult"
    /\ pos > 1
    /\ StartsWithQuote(Owner(pos))
    /\ VoucherId(pos) = << >>
    /\ currentResultUnits # << >>
    /\ buffer[Len(buffer)] = pos

\* -------------------------------------------------------------------------
\* C6: no unit's buffer holds an input row twice, and every flushed row is exactly
\* once in the buffer of each unit its stretch of rows is attributed to, also when
\* several ownership lines of the stretch name the same unit.
C6_ExactlyOncePerUnit ==
    Partitioning =>
        /\ \A u \in DOMAIN resultUnits :
              LET b == resultUnits[u].Buffer
              IN  \A i, k \in DOMAIN b : b[i] = b[k] => i = k
        /\ \A r \in 1..(pos - 1) :
              LET j == StretchStart(r)
              IN  Flushed(j) =>
                      \A u \in Attributed(j) : Occurrences(resultUnits[u].Buffer, r) = 1

\* A flushed stretch with two ownership lines that name the same unit.
C6_Witness ==
    /\ Partitioning
    /\ \E r \in 1..Len(lines) :
          /\ r > 1
          /\ Flushed(StretchStart(r))
          /\ StretchStart(r) = StretchStart(r - 1)
          /\ OwnershipLine(r)
          /\ OwnershipLine(r - 1)
          /\ Owner(r) = Owner(r - 1)
          /\ \E u \in DOMAIN resultUnits :
                resultUnits[u].Name = Owner(r) /\ Occurrences(resultUnits[u].Buffer, r) = 1

\* -------------------------------------------------------------------------
\* C7: a file with a row that has not exactly 8 fields never gets a row classified
\* or buffered: the run stops with every unit buffer empty, the pending buffer empty
\* and no row consumed, wherever the row is in the file.
Malformed == \E k \in 1..Len(file) : Len(file[k]) # 8

NothingPartitioned ==
    /\ pos = 0
    /\ buffer = << >>
    /\ currentResultUnits = << >>
    /\ \A u \in DOMAIN resultUnits : resultUnits[u].Buffer = << >>

C7_MalformedAbortsBeforePartitioning ==
    Malformed =>
        /\ NothingPartitioned
        /\ ~Partitioned
        /\ pc = "splitFileByResult" => ENABLED SanityCheck

\* The sanity check of splitFileByResult has stopped the run.
C7_Witness ==
    /\ Malformed
    /\ pc = "aborted"
    /\ exit = "splitFileByResult: log.Fatal"
    /\ Len(resultUnits) > 0
    /\ NothingPartitioned

\* -------------------------------------------------------------------------
\* C8: a file with a row that has not exactly 8 fields gets no output file: writeFile
\* is never reached and ioutil.WriteFile is never called.
C8_MalformedWritesNothing ==
    Malformed => (writes = << >> /\ pc \notin {"writeFile", "writeFileLoop", "done"})

\* A malformed row behind well-formed ones has stopped the run.
C8_Witness ==
    /\ pc = "aborted"
    /\ Len(file) > 1
    /\ Len(file[1]) = 8
    /\ Len(file[Len(file)]) # 8
    /\ writes = << >>

\* -------------------------------------------------------------------------
\* C9: when no row carries the default unit's name as field 5, the run stops after
\* discovery, in main, before a row is consumed or a file is written; and the
\* partitioning only runs with a default unit that is a discovered unit of that name.
NoDefaultRow ==
    \A k \in 1..Len(file) : Len(file[k]) >= 6 => file[k][6] # defaultResultUnitName

C9_NoDefaultAborts ==
    /\ NoDefaultRow =>
          /\ pc \in {"readFile", "findResultUnits", "main", "aborted"}
          /\ NothingPartitioned
          /\ writes = << >>
          /\ (pc = "aborted" /\ lines = file /\ resultUnits # << >>) => exit = "main: panic"
    /\ Partitioning =>
          /\ defaultResultUnit \in DOMAIN resultUnits
          /\ resultUnits[defaultResultUnit].Name = defaultResultUnitName

\* main has panicked on a file whose rows name another unit only.
C9_Witness ==
    /\ NoDefaultRow
    /\ pc = "aborted"
    /\ exit = "main: panic"
    /\ Len(resultUnits) > 0
    /\ defaultResultUnit = 0

\* -------------------------------------------------------------------------
\* C10: the loop of writeFile goes on after a failure: WriteFile is called for every
\* unit in turn, with the unit's serialized buffer where the serializer succeeded,
\* the run ends normally with every unit handled, and nothing stops it once the
\* loop has begun.
C10_ExportGoesOn ==
    /\ pc \in {"writeFileLoop", "done"} =>
          /\ Len(writes) = exported
          /\ \A k \in 1..exported :
                /\ writes[k].unit = resultUnits[k].Name
                /\ ~writes[k].dumpErr =>
                      (~writes[k].nilData /\ writes[k].data = resultUnits[k].Buffer)
    /\ pc = "done" => exported = Len(resultUnits)
    /\ pc = "writeFileLoop" => ENABLED (WriteFileUnit \/ WriteFileReturn)
    /\ pc = "aborted" => writes = << >>

\* The first unit's export has failed and the second unit has its file.
C10_Witness ==
    /\ pc = "done"
    /\ Len(writes) = 2
    /\ (writes[1].dumpErr \/ writes[1].err)
    /\ ~writes[2].dumpErr
    /\ ~writes[2].err
    /\ writes[2].data # << >>

\* -------------------------------------------------------------------------
\* C11: a unit whose serialization returned an error has no output file: no
\* ioutil.WriteFile call for it succeeds.
C11_FailedDumpNoFile ==
    pc \in {"writeFileLoop", "done"} =>
        \A k \in DOMAIN writes : writes[k].dumpErr => writes[k].err

\* -------------------------------------------------------------------------
\* C12: findResultUnits returns exactly one unit per distinct value of field 5 that
\* is not empty and does not start with a quote, and nothing else; every unit's
\* buffer is empty.
NamedOwners ==
    {file[k][6] : k \in {i \in 1..Len(file) : file[i][6] # << >> /\ ~StartsWithQuote(file[i][6])}}

C12_OneUnitPerOwner ==
    pc = "main" =>
        /\ {resultUnits[u].Name : u \in DOMAIN resultUnits} = NamedOwners
        /\ \A u, v \in DOMAIN resultUnits :
              resultUnits[u].Name = resultUnits[v].Name => u = v
        /\ \A u \in DOMAIN resultUnits : resultUnits[u].Buffer = << >>

\* Discovery has returned two units for a file with a repeated owner and a quoted one.
C12_Witness ==
    /\ pc = "main"
    /\ Len(resultUnits) = 2
    /\ \E i, k \in 1..Len(file) : i # k /\ file[i][6] = file[k][6] /\ file[i][6] = DK
    /\ \E i \in 1..Len(file) : StartsWithQuote(file[i][6])

\* -------------------------------------------------------------------------
\* C13: the final buffer of every unit does not depend on the order in which
\* discovery returned the units.  Every order is a behaviour of the specification,
\* so two runs on the same rows end with the same buffer for a name if and only if
\* the buffer is a function of the rows and the name: the function is BufferOf.
NameAttributed(n, j) ==
    IF OwnersFrom(j) = {} THEN n = defaultResultUnitName ELSE n \in OwnersFrom(j)

\* The rows of the flushed stretches from row j on that are attributed to name n.
RECURSIVE BufferOf(_, _)
BufferOf(n, j) ==
    IF j > Len(lines) \/ StretchEnd(j) >= pos
    THEN << >>
    ELSE (IF NameAttributed(n, j) THEN RowsFrom(j) ELSE << >>) \o BufferOf(n, StretchEnd(j) + 1)

C13_OrderOfUnitsIrrelevant ==
    Partitioned =>
        \A u \in DOMAIN resultUnits : resultUnits[u].Buffer = BufferOf(resultUnits[u].Name, 1)

\* A run in which discovery returned the default unit last and both units got rows.
C13_Witness ==
    /\ pc = "writeFile"
    /\ Len(resultUnits) = 2
    /\ defaultResultUnit = 2
    /\ resultUnits[1].Buffer # << >>
    /\ resultUnits[2].Buffer # << >>
    /\ resultUnits[1].Buffer # resultUnits[2].Buffer

\* -------------------------------------------------------------------------
\* C14: splitting what dumpCSV returns into lines at the newline and every line into
\* fields at ';' gives the rows of the buffer again, field for field.
FirstAt(t, c) == CHOOSE i \in 1..Len(t) : t[i] = c /\ \A k \in 1..(i - 1) : t[k] # c

\* The pieces of t between the occurrences of character c.
RECURSIVE SplitAt(_, _)
SplitAt(t, c) ==
    IF \A i \in 1..Len(t) : t[i] # c
    THEN <<t>>
    ELSE <<SubSeq(t, 1, FirstAt(t, c) - 1)>> \o SplitAt(SubSeq(t, FirstAt(t, c) + 1, Len(t)), c)

\* The rows read back: the piece after the last newline is not a line.
ReadBack(data) ==
    LET ls == SplitAt(data, "\n")
    IN  [k \in 1..(Len(ls) - 1) |-> SplitAt(ls[k], ";")]

C14_CsvRoundTrip == pc = "dumped" => ReadBack(writes[1]) = lines

\* -------------------------------------------------------------------------
\* C15: every 8-field row takes exactly one of the three transitions, the first that
\* matches in the order ownership, continuation, new-voucher: the step flushes if
\* and only if field 5 is empty or quoted and field 0 is not empty; a row with a
\* plain non-empty field 5 is appended without a flush, whatever its field 0.
ConsumesRow == pc = "splitFileByResult" /\ pos' = pos + 1

\* The units a flush in the current state goes to.
TargetsNow ==
    IF currentResultUnits = << >>
    THEN {defaultResultUnit}
    ELSE {currentResultUnits[i] : i \in DOMAIN currentResultUnits}

FlushedNow ==
    /\ DOMAIN resultUnits' = DOMAIN resultUnits
    /\ \A u \in DOMAIN resultUnits :
          resultUnits'[u].Buffer =
              resultUnits[u].Buffer \o (IF u \in TargetsNow THEN buffer ELSE << >>)

OneTransition ==
    (InLoop /\ Len(lines[pos + 1]) = 8) =>
        /\ ENABLED ParseDebetCreditLine <=> OwnershipLine(pos + 1)
        /\ ENABLED ParseEmptyLine <=> (~OwnershipLine(pos + 1) /\ VoucherId(pos + 1) = << >>)
        /\ ENABLED ParseNewVerificatLine <=> NewVoucherLine(pos + 1)

TransitionStep ==
    ConsumesRow =>
        IF OwnershipLine(pos + 1)
        THEN buffer' = Append(buffer, pos + 1) /\ resultUnits' = resultUnits
        ELSE IF VoucherId(pos + 1) = << >>
        THEN /\ buffer' = Append(buffer, pos + 1)
             /\ resultUnits' = resultUnits
             /\ currentResultUnits' = currentResultUnits
        ELSE /\ buffer' = <<pos + 1>>
             /\ currentResultUnits' = << >>
             /\ FlushedNow

C15_FirstMatchingTransition == [](OneTransition) /\ [][TransitionStep]_vars

\* An ownership line with a voucher number has been appended to a pending buffer.
C15_Witness ==
    /\ pc = "splitFileByResult"
    /\ pos > 1
    /\ OwnershipLine(pos)
    /\ VoucherId(pos) # << >>
    /\ Len(buffer) > 1
    /\ buffer[Len(buffer)] = pos

\* -------------------------------------------------------------------------
\* C16: right after a new-voucher transition currentResultUnits is empty and the
\* pending buffer holds exactly the new-voucher row; while the loop runs, the default
\* unit is in currentResultUnits only if an ownership line of the current group named
\* it, and currentResultUnits never holds a unit twice.
C16_ResetAtNewVoucher ==
    (pc = "splitFileByResult" /\ pos > 0) =>
        /\ NewVoucherLine(pos) => (currentResultUnits = << >> /\ buffer = <<pos>>)
        /\ \A i, k \in DOMAIN currentResultUnits :
              currentResultUnits[i] = currentResultUnits[k] => i = k
        /\ (\E i \in DOMAIN currentResultUnits : currentResultUnits[i] = defaultResultUnit) =>
              \E k \in StretchStart(pos)..pos :
                  OwnershipLine(k) /\ Owner(k) = defaultResultUnitName

\* A new-voucher line has just flushed a group that had activated a unit.
C16_Witness ==
    /\ pc = "splitFileByResult"
    /\ pos > 2
    /\ NewVoucherLine(pos)
    /\ OwnershipLine(pos - 1)
    /\ NewVoucherLine(pos - 2)
    /\ currentResultUnits = << >>
    /\ buffer = <<pos>>

\* -------------------------------------------------------------------------
\* C17: while splitFileByResult runs, the units and their names never change and the
\* unit buffers change only at a flush: ownership and continuation steps leave every
\* buffer as it is, a new-voucher step leaves the buffers of the units it does not
\* target as they are and extends the others, the old content a prefix of the new.
IsPrefix(a, b) == Len(a) <= Len(b) /\ SubSeq(b, 1, Len(a)) = a

BuffersFrame ==
    pc = "splitFileByResult" =>
        /\ DOMAIN resultUnits' = DOMAIN resultUnits
        /\ \A u \in DOMAIN resultUnits :
              /\ resultUnits'[u].Name = resultUnits[u].Name
              /\ IsPrefix(resultUnits[u].Buffer, resultUnits'[u].Buffer)
              /\ resultUnits'[u].Buffer # resultUnits[u].Buffer =>
                    (ConsumesRow /\ NewVoucherLine(pos + 1) /\ u \in TargetsNow)

C17_BuffersAppendOnlyAtFlush == [][BuffersFrame]_vars

\* A flush has extended a buffer that held rows already, and left another unit's alone.
C17_Witness ==
    /\ pc = "splitFileByResult"
    /\ pos > 2
    /\ NewVoucherLine(pos)
    /\ NewVoucherLine(pos - 1)
    /\ Len(resultUnits) = 2
    /\ \E u, v \in DOMAIN resultUnits :
          /\ Len(resultUnits[u].Buffer) > 1
          /\ resultUnits[u].Buffer[Len(resultUnits[u].Buffer)] = pos - 1
          /\ resultUnits[v].Buffer = << >>

\* -------------------------------------------------------------------------
\* C18: the engine runs over the rows discovery scanned, so the owner of an ownership
\* line is never unknown: after the line is consumed the unit of that name is in
\* currentResultUnits, and exactly one discovered unit has the name.
C18_OwnerAlwaysKnown ==
    (pc = "splitFileByResult" /\ pos > 0) =>
        (OwnershipLine(pos) =>
            /\ \E i \in DOMAIN currentResultUnits :
                  resultUnits[currentResultUnits[i]].Name = Owner(pos)
            /\ Cardinality({u \in DOMAIN resultUnits : resultUnits[u].Name = Owner(pos)}) = 1)

\* The second of two ownership lines that name different units has been consumed.
C18_Witness ==
    /\ pc = "splitFileByResult"
    /\ pos > 1
    /\ OwnershipLine(pos)
    /\ OwnershipLine(pos - 1)
    /\ Owner(pos) # Owner(pos - 1)
    /\ Len(currentResultUnits) = 2
    /\ resultUnits[currentResultUnits[2]].Name = Owner(pos)

\* -------------------------------------------------------------------------
\* C19: every unit's buffer is a subsequence of the input rows in input order, and it
\* holds of every stretch of rows between new-voucher lines either all rows or none.
Increasing(seq) == \A i \in 1..(Len(seq) - 1) : seq[i] < seq[i + 1]

C19_BuffersOrderedWholeGroups ==
    Partitioning =>
        \A u \in DOMAIN resultUnits :
            /\ Increasing(resultUnits[u].Buffer)
            /\ \A i \in DOMAIN resultUnits[u].Buffer : resultUnits[u].Buffer[i] \in 1..Len(lines)
            /\ \A j \in Groups \cup {1} :
                  j <= Len(lines) => (Held(u, j) = << >> \/ Held(u, j) = RowsFrom(j))

\* A unit holds all rows of one group and none of the next.
C19_Witness ==
    /\ Partitioning
    /\ \E u \in DOMAIN resultUnits : \E j \in Groups \cup {1}, k \in Groups :
          /\ j < k
          /\ Flushed(k)
          /\ StretchEnd(j) > j
          /\ Held(u, j) = RowsFrom(j)
          /\ Held(u, k) = << >>

\* -------------------------------------------------------------------------
\* C20: while the loop runs no consumed row is lost: every row consumed so far is
\* either in the pending buffer, once and in input order, or in the buffer of at least
\* one unit, and never in both; the rows before the first new-voucher line included.
InSeq(seq, x) == \E i \in DOMAIN seq : seq[i] = x

C20_NoRowLost ==
    pc = "splitFileByResult" =>
        /\ Increasing(buffer)
        /\ \A i \in DOMAIN buffer : buffer[i] \in 1..pos
        /\ \A r \in 1..pos :
              InSeq(buffer, r) <=> ~(\E u \in DOMAIN resultUnits : InSeq(resultUnits[u].Buffer, r))

\* The rows before the first new-voucher line are in a unit's buffer and later rows
\* are pending.
C20_Witness ==
    /\ pc = "splitFileByResult"
    /\ pos = Len(lines)
    /\ pos > 2
    /\ ~NewVoucherLine(1)
    /\ ~NewVoucherLine(2)
    /\ \E u \in DOMAIN resultUnits : resultUnits[u].Buffer = <<1, 2>>
    /\ Len(buffer) > 1
====
